---- MODULE Spec2Model ----
(***************************************************************************)
(* Model of the g1c dashboard: the UiState state machine (src/ui/mod.rs)   *)
(* and the event loop of App (src/app.rs).                                 *)
(*                                                                         *)
(* Strings are sequences of one-character strings.  An Option<String> is a *)
(* record [some |-> BOOLEAN, v |-> string].  Indexes are 0-based as in the *)
(* source, so the selected instance is instances[selected_index + 1].      *)
(***************************************************************************)
EXTENDS Integers, Sequences, FiniteSets, TLC

\* ---------------------------------------------------------------- bounds
\* most characters held by the filter and search buffers together
MaxTyped == 2

\* ------------------------------------------------------ strings, options
None == [some |-> FALSE, v |-> <<>>]
Some(s) == [some |-> TRUE, v |-> s]

LowerMap ==
    ("A" :> "a") @@ ("D" :> "d") @@ ("E" :> "e") @@ ("G" :> "g") @@
    ("I" :> "i") @@ ("M" :> "m") @@ ("N" :> "n") @@ ("P" :> "p") @@
    ("R" :> "r") @@ ("S" :> "s") @@ ("T" :> "t") @@ ("U" :> "u") @@
    ("W" :> "w")

\* char::to_lowercase on the characters the model uses
Lower(c) == IF c \in DOMAIN LowerMap THEN LowerMap[c] ELSE c

\* str::to_lowercase
to_lowercase(s) == [i \in 1..Len(s) |-> Lower(s[i])]

\* str::contains(&pattern): pattern occurs as a contiguous substring
contains(s, t) ==
    \E i \in 1..(Len(s) - Len(t) + 1) : SubSeq(s, i, i + Len(t) - 1) = t

\* ------------------------------------------------------------- instances
RUNNING == <<"R", "U", "N", "N", "I", "N", "G">>
TERMINATED == <<"T", "E", "R", "M", "I", "N", "A", "T", "E", "D">>
STOPPING == <<"S", "T", "O", "P", "P", "I", "N", "G">>
PROVISIONING ==
    <<"P", "R", "O", "V", "I", "S", "I", "O", "N", "I", "N", "G">>
STAGING == <<"S", "T", "A", "G", "I", "N", "G">>
SUSPENDED == <<"S", "U", "S", "P", "E", "N", "D", "E", "D">>
REPAIRING == <<"R", "E", "P", "A", "I", "R", "I", "N", "G">>
PENDING == <<"P", "E", "N", "D", "I", "N", "G">>
UNKNOWN == <<"U", "N", "K", "N", "O", "W", "N">>

\* render_instance_list: the text of the status column, without its emoji
status_display(status) ==
    CASE status = RUNNING -> RUNNING
      [] status = TERMINATED -> TERMINATED
      [] status = STOPPING -> STOPPING
      [] status = PROVISIONING -> PROVISIONING
      [] status = STAGING -> STAGING
      [] status = SUSPENDED -> SUSPENDED
      [] status = REPAIRING -> REPAIRING
      [] status = PENDING -> PENDING
      [] OTHER -> UNKNOWN

\* a status of the provider that render_instance_list has no arm for
SUSPENDING == <<"S", "U", "S", "P", "E", "N", "D", "I", "N", "G">>

\* cloud::Instance, restricted to the fields the dashboard state reads
InstA == [id |-> <<"1">>, name |-> <<"w", "u">>, status |-> RUNNING,
          machine_type |-> <<"e", "2">>, zone |-> <<"z", "-", "a">>,
          network |-> None, internal_ip |-> Some(<<"1", "0">>)]
InstB == [id |-> <<"2">>, name |-> <<"d", "b">>, status |-> TERMINATED,
          machine_type |-> <<"e", "2">>, zone |-> <<"z", "-", "b">>,
          network |-> None, internal_ip |-> None]
InstC == [id |-> <<"3">>, name |-> <<"c">>, status |-> SUSPENDING,
          machine_type |-> <<"f", "1">>, zone |-> <<"z", "-", "a">>,
          network |-> Some(<<"w", "a", "n">>), internal_ip |-> Some(<<"1", "1">>)]

\* the listings the provider may answer a list call with
Listings == { <<>>, <<InstA, InstB, InstC>>, <<InstB, InstC>> }

\* ------------------------------------------------------------------ keys
\* KeyEvent: code, the character of KeyCode::Char, and the CONTROL modifier
Char(c) == [code |-> "Char", c |-> c, ctrl |-> FALSE]
Ctrl(c) == [code |-> "Char", c |-> c, ctrl |-> TRUE]
Code(k) == [code |-> k, c |-> "", ctrl |-> FALSE]
NoKey == Code("None")

\* characters with no binding of their own in handle_key_event
TextChars == {"w", "U"}
\* characters bound to a command in handle_key_event
CommandChars == {"q", "?", "k", "j", "r", "s", "S", "R", "f", "/"}

\* characters the help popup lists that handle_key_event has no arm for
HelpOnlyChars == {"d"}

Keys ==
    {Char(c) : c \in CommandChars \cup TextChars \cup HelpOnlyChars} \cup
    {Ctrl("c")} \cup
    {Code(k) : k \in {"Up", "Down", "Enter", "Esc", "Backspace", "Tab"}}

\* --------------------------------------------------------------- UiState
\* UiState::new
UiStateNew ==
    [instances |-> <<>>, selected_index |-> 0,
     show_help |-> FALSE, show_details |-> FALSE,
     filter_mode |-> FALSE, filter |-> <<>>,
     search_mode |-> FALSE, search |-> <<>>]

\* the closure of apply_filter's retain, on an already lower-cased filter
matches(instance, f) ==
    \/ contains(to_lowercase(instance.name), f)
    \/ contains(to_lowercase(instance.status), f)
    \/ contains(to_lowercase(instance.machine_type), f)
    \/ contains(to_lowercase(instance.zone), f)
    \/ (instance.network.some /\ contains(to_lowercase(instance.network.v), f))
    \/ (instance.internal_ip.some /\ contains(to_lowercase(instance.internal_ip.v), f))

\* Vec::retain with the filter closure
RECURSIVE retain(_, _)
retain(list, f) ==
    IF list = <<>> THEN <<>>
    ELSE IF matches(Head(list), f)
         THEN <<Head(list)>> \o retain(Tail(list), f)
         ELSE retain(Tail(list), f)

\* UiState::ensure_valid_selection
ensure_valid_selection(ui) ==
    IF ui.instances # <<>> /\ ui.selected_index >= Len(ui.instances)
    THEN [ui EXCEPT !.selected_index = Len(ui.instances) - 1]
    ELSE ui

\* UiState::apply_filter
apply_filter(ui) ==
    ensure_valid_selection(
        [ui EXCEPT !.instances = retain(@, to_lowercase(ui.filter))])

\* update_instances that forgets to re-apply the active filter
update_instances_unfiltered(ui, list) ==
    ensure_valid_selection([ui EXCEPT !.instances = list])

\* update_instances that drops the instances whose status has no arm in
\* render_instance_list
update_instances_known_only(ui, list) ==
    LET replaced ==
            [ui EXCEPT !.instances =
                SelectSeq(list, LAMBDA i : status_display(i.status) # UNKNOWN)]
    IN ensure_valid_selection(
           IF ui.filter # <<>> THEN apply_filter(replaced) ELSE replaced)

\* UiState::update_instances
update_instances(ui, list) ==
    LET replaced == [ui EXCEPT !.instances = list]
    IN ensure_valid_selection(
           IF ui.filter # <<>> THEN apply_filter(replaced) ELSE replaced)

\* UiState::toggle_help
toggle_help(ui) ==
    [ui EXCEPT !.show_help = ~@, !.filter_mode = FALSE, !.search_mode = FALSE]

\* UiState::toggle_filter_mode
toggle_filter_mode(ui) ==
    [ui EXCEPT !.filter_mode = ~@, !.search_mode = FALSE,
               !.filter = IF ui.filter_mode THEN <<>> ELSE @]

\* toggle_search_mode that leaves filter_mode as it is
toggle_search_mode_keeping(ui) ==
    [ui EXCEPT !.search_mode = ~@,
               !.search = IF ui.search_mode THEN <<>> ELSE @]

\* UiState::toggle_search_mode
toggle_search_mode(ui) ==
    [ui EXCEPT !.search_mode = ~@, !.filter_mode = FALSE,
               !.search = IF ui.search_mode THEN <<>> ELSE @]

\* UiState::is_input_mode
is_input_mode(ui) == ui.filter_mode \/ ui.search_mode

\* String::pop, which leaves an empty string alone
pop(s) == IF s = <<>> THEN s ELSE SubSeq(s, 1, Len(s) - 1)

\* UiState::handle_input
handle_input(ui, k) ==
    IF k.code = "Char" THEN
        IF ui.filter_mode THEN [ui EXCEPT !.filter = Append(@, k.c)]
        ELSE IF ui.search_mode THEN [ui EXCEPT !.search = Append(@, k.c)]
        ELSE ui
    ELSE IF k.code = "Backspace" THEN
        IF ui.filter_mode THEN [ui EXCEPT !.filter = pop(@)]
        ELSE [ui EXCEPT !.search = pop(@)]
    ELSE ui

\* show_details without the test for an empty list
show_details_unguarded(ui) == [ui EXCEPT !.show_details = TRUE]

\* UiState::show_details
show_details(ui) ==
    IF ui.instances # <<>> THEN [ui EXCEPT !.show_details = TRUE] ELSE ui

\* close_popup that also moves the cursor back to the first instance
close_popup_resetting(ui) ==
    [ui EXCEPT !.show_help = FALSE, !.show_details = FALSE,
               !.filter_mode = FALSE, !.search_mode = FALSE,
               !.selected_index = 0]

\* UiState::close_popup
close_popup(ui) ==
    [ui EXCEPT !.show_help = FALSE, !.show_details = FALSE,
               !.filter_mode = FALSE, !.search_mode = FALSE]

\* previous_item that stops at the first element instead of wrapping
previous_item_nowrap(ui) ==
    IF ui.instances # <<>> /\ ui.selected_index > 0
    THEN [ui EXCEPT !.selected_index = @ - 1]
    ELSE ui

\* UiState::previous_item
previous_item(ui) ==
    IF ui.instances # <<>> THEN
        IF ui.selected_index > 0
        THEN [ui EXCEPT !.selected_index = @ - 1]
        ELSE [ui EXCEPT !.selected_index = Len(ui.instances) - 1]
    ELSE ui

\* next_item without the wraparound of `% len`
next_item_nowrap(ui) ==
    IF ui.instances # <<>>
    THEN [ui EXCEPT !.selected_index = @ + 1]
    ELSE ui

\* UiState::next_item
next_item(ui) ==
    IF ui.instances # <<>>
    THEN [ui EXCEPT !.selected_index = (@ + 1) % Len(ui.instances)]
    ELSE ui

\* UiState::has_valid_selection
has_valid_selection(ui) ==
    ui.instances # <<>> /\ ui.selected_index < Len(ui.instances)

\* UiState::reset_selection
reset_selection(ui) == [ui EXCEPT !.selected_index = 0]

\* the index expression instances[selected_index] panics when out of range
index_in_range(ui) == ui.selected_index < Len(ui.instances)

\* selected_instance_id that reads the first instance, not the selected one
selected_instance_id_first(ui) ==
    IF ui.instances = <<>> THEN None
    ELSE Some(ui.instances[1].id)

\* UiState::selected_instance_id, where it does not panic
selected_instance_id(ui) ==
    IF ui.instances = <<>> THEN None
    ELSE Some(ui.instances[ui.selected_index + 1].id)

\* ------------------------------------------------------------------- App
ActionOps == {"Start", "Stop", "Restart"}

\* the intervals Config::refresh_interval is given when the loop runs, in
\* time units of the model
RefreshIntervals == {0, 1}

NoCall == [op |-> "none", id |-> <<>>, ctx |-> "none"]
ListCall(ctx) == [op |-> "list", id |-> <<>>, ctx |-> ctx]
\* an action arm that calls start_instance whatever the key
ActCall_start(op, id) == [op |-> "Start", id |-> id, ctx |-> "key"]
\* an action arm that calls delete_instance whatever the key
ActCall_delete(op, id) == [op |-> "Delete", id |-> id, ctx |-> "key"]
ActCall(op, id) == [op |-> op, id |-> id, ctx |-> "key"]

\* Result<Vec<Instance>> of CloudClient::list_instances
Ok(list) == [ok |-> TRUE, list |-> list]
Err == [ok |-> FALSE, list |-> <<>>]

\* ---------------------------------------------------------------- Config
\* the project and region names the model uses
Projects == {<<"p">>, <<"q">>}
Regions == {<<"e", "u">>}
\* the credentials_path of the model's configuration files
Paths == {<<"/", "k">>}
\* the theme names of the model's configuration files
Themes == {<<"d", "e", "f", "a", "u", "l", "t">>, <<"d", "a", "r", "k">>}

\* Config::default
ConfigDefault ==
    [project |-> None, region |-> None, refresh_interval |-> 5,
     theme |-> <<"d", "e", "f", "a", "u", "l", "t">>, use_ssh |-> TRUE,
     credentials_path |-> None]

\* Config::with_project
with_project(cfg, project) ==
    IF project.some THEN [cfg EXCEPT !.project = Some(project.v)] ELSE cfg

\* Config::with_region
with_region(cfg, region) ==
    IF region.some THEN [cfg EXCEPT !.region = Some(region.v)] ELSE cfg

\* with_refresh_interval that stores whatever it is given
with_refresh_interval_unchecked(cfg, interval) ==
    [cfg EXCEPT !.refresh_interval = interval]

\* Config::with_refresh_interval
with_refresh_interval(cfg, interval) ==
    IF interval > 0 THEN [cfg EXCEPT !.refresh_interval = interval] ELSE cfg

\* the configurations App::new is given, as far as the loop reads them
LoopConfigs ==
    {[ConfigDefault EXCEPT !.refresh_interval = i] : i \in RefreshIntervals}

VARIABLES
    ui_state,          \* App::ui_state
    should_quit,       \* App::should_quit
    config,            \* the Config of main, then App::config
    args,              \* main's Args: the command-line overrides
    commands,          \* the gcloud commands a lifecycle call has run
    terminal,          \* what main has done to the terminal
    elapsed,           \* App::last_refresh.elapsed(), saturating at refresh_interval
    pc,                \* where the program is
    key,               \* the key event read in this loop iteration, or NoKey
    call,              \* the provider call in flight, or the one that failed
    fetched,           \* history: the listing the provider returned last
    restore            \* history: the unfiltered list a filter was typed over

vars == <<ui_state, should_quit, config, args, commands, terminal, elapsed,
          pc, key, call, fetched, restore>>

\* App::config.refresh_interval
refresh_interval == config.refresh_interval

NoList == [some |-> FALSE, list |-> <<>>]
SomeList(l) == [some |-> TRUE, list |-> l]

\* the match of App::handle_key_event: the arm a key event selects
dispatch(k) ==
    IF k.code = "Char" /\ k.c = "q" THEN "quit"
    ELSE IF k.code = "Char" /\ k.c = "c" /\ k.ctrl THEN "quit"
    ELSE IF k.code = "Char" /\ k.c = "?" THEN "toggle_help"
    ELSE IF k.code = "Up" \/ (k.code = "Char" /\ k.c = "k") THEN "previous_item"
    ELSE IF k.code = "Down" \/ (k.code = "Char" /\ k.c = "j") THEN "next_item"
    ELSE IF k.code = "Enter" THEN "show_details"
    ELSE IF k.code = "Esc" THEN "close_popup"
    ELSE IF k.code = "Char" /\ k.c = "r" THEN "refresh"
    ELSE IF k.code = "Char" /\ k.c = "s" THEN "Start"
    ELSE IF k.code = "Char" /\ k.c = "S" THEN "Stop"
    ELSE IF k.code = "Char" /\ k.c = "R" THEN "Restart"
    ELSE IF k.code = "Char" /\ k.c = "f" THEN "toggle_filter_mode"
    ELSE IF k.code = "Char" /\ k.c = "/" THEN "toggle_search_mode"
    ELSE "input"

\* the arms of App::handle_key_event that only call into UiState
UiArms == {"toggle_help", "previous_item", "next_item", "show_details",
           "close_popup", "toggle_filter_mode", "toggle_search_mode", "input"}

\* what such an arm does to the UiState
ui_arm(ui, k) ==
    CASE dispatch(k) = "toggle_help" -> toggle_help(ui)
      [] dispatch(k) = "previous_item" -> previous_item(ui)
      [] dispatch(k) = "next_item" -> next_item(ui)
      [] dispatch(k) = "show_details" -> show_details(ui)
      [] dispatch(k) = "close_popup" -> close_popup(ui)
      [] dispatch(k) = "toggle_filter_mode" -> toggle_filter_mode(ui)
      [] dispatch(k) = "toggle_search_mode" -> toggle_search_mode(ui)
      [] OTHER -> IF is_input_mode(ui) THEN handle_input(ui, k) ELSE ui

\* refresh_data that resets the selection after every successful listing
refresh_data_resetting(ui, result) ==
    IF result.ok THEN reset_selection(update_instances(ui, result.list))
    ELSE ui

\* refresh_data that blanks the list when list_instances fails
refresh_data_clearing(ui, result) ==
    IF result.ok THEN
        LET updated == update_instances(ui, result.list)
        IN IF ~has_valid_selection(updated) THEN reset_selection(updated)
           ELSE updated
    ELSE reset_selection(update_instances(ui, <<>>))

\* App::refresh_data once list_instances has returned `result`
refresh_data(ui, result) ==
    IF result.ok THEN
        LET updated == update_instances(ui, result.list)
        IN IF ~has_valid_selection(updated) THEN reset_selection(updated)
           ELSE updated
    ELSE ui

\* the refresh-due test with `>` for `>=`
refresh_due_strict(e, interval) == e > interval

\* App::run: last_refresh.elapsed() >= Duration::from_secs(refresh_interval)
refresh_due(e, interval) == e >= interval

\* Instant::elapsed after `d` more time units, saturating
later(e, d) == IF e + d > refresh_interval THEN refresh_interval ELSE e + d

\* the typed texts the model follows: short ones, over TextChars
within_bounds(ui) ==
    /\ Len(ui.filter) + Len(ui.search) <= MaxTyped
    /\ \A i \in 1..Len(ui.filter) : ui.filter[i] \in TextChars
    /\ \A i \in 1..Len(ui.search) : ui.search[i] \in TextChars

\* history: a text key typed into the filter of an unfiltered list
typed_over(ui, k) ==
    IF dispatch(k) = "input" /\ ui.filter_mode /\ k.code \in {"Char", "Backspace"}
    THEN IF k.code = "Char" /\ ui.filter = <<>>
         THEN IF ui.instances = fetched THEN SomeList(ui.instances) ELSE NoList
         ELSE restore
    ELSE NoList

Init ==
    /\ ui_state = UiStateNew
    /\ should_quit = FALSE
    /\ config \in LoopConfigs
    /\ args = [project |-> config.project, region |-> config.region,
               refresh |-> config.refresh_interval]
    /\ commands = <<>>
    /\ terminal = "set_up"
    /\ elapsed = 0
    /\ pc = "client_new"
    /\ key = NoKey
    /\ call = NoCall
    /\ fetched = <<>>
    /\ restore = NoList

\* App::new: CloudClient::new resolves the project, then the initial fetch starts
ClientNewOk ==
    /\ pc = "client_new"
    /\ pc' = "list_call"
    /\ call' = ListCall("new")
    /\ UNCHANGED <<ui_state, should_quit, config, args, commands, terminal,
                   elapsed, key, fetched, restore>>

\* App::new: CloudClient::new fails
ClientNewErr ==
    /\ pc = "client_new"
    /\ pc' = "startup_failed"
    /\ UNCHANGED <<ui_state, should_quit, config, args, commands, terminal,
                   elapsed, key, call, fetched, restore>>

\* where control goes after refresh_data returned Ok
after_refresh(ctx) == IF ctx \in {"new", "periodic"} THEN "draw" ELSE "check"

\* refresh_data that leaves last_refresh as it was
ListOk_untimed ==
    /\ pc = "list_call"
    /\ \E l \in Listings :
        /\ ui_state' = refresh_data(ui_state, Ok(l))
        /\ fetched' = l
        /\ restore' = IF restore = SomeList(l) THEN restore ELSE NoList
    /\ pc' = after_refresh(call.ctx)
    /\ call' = NoCall
    /\ UNCHANGED <<should_quit, config, args, commands, terminal, elapsed,
                   key>>

\* App::refresh_data: list_instances returns a listing
ListOk ==
    /\ pc = "list_call"
    /\ \E l \in Listings :
        /\ ui_state' = refresh_data(ui_state, Ok(l))
        /\ fetched' = l
        /\ restore' = IF restore = SomeList(l) THEN restore ELSE NoList
    /\ elapsed' = 0
    /\ pc' = after_refresh(call.ctx)
    /\ call' = NoCall
    /\ UNCHANGED <<should_quit, config, args, commands, terminal, key>>

\* refresh_data that swallows the error of list_instances and carries on
ListErr_swallowed ==
    /\ pc = "list_call"
    /\ pc' = after_refresh(call.ctx)
    /\ UNCHANGED <<ui_state, should_quit, config, args, commands, terminal,
                   elapsed, key, call, fetched, restore>>

\* App::refresh_data: list_instances fails and `?` returns the error
ListErr ==
    /\ pc = "list_call"
    /\ ui_state' = refresh_data(ui_state, Err)
    /\ pc' = IF call.ctx = "new" THEN "startup_failed" ELSE "failed"
    /\ UNCHANGED <<should_quit, config, args, commands, terminal, elapsed,
                   key, call, fetched, restore>>

\* perform_action that starts the provider call and does not await it
ActOk_detached ==
    /\ pc = "act_call"
    /\ pc' = "check"
    /\ UNCHANGED <<ui_state, should_quit, config, args, commands, terminal,
                   elapsed, key, call, fetched, restore>>

\* App::perform_action: the provider call succeeds, refresh_data follows
ActOk ==
    /\ pc = "act_call"
    /\ pc' = "list_call"
    /\ call' = ListCall("action")
    /\ UNCHANGED <<ui_state, should_quit, config, args, commands, terminal,
                   elapsed, key, fetched, restore>>

\* App::perform_action: the provider call fails and `?` returns the error
ActErr ==
    /\ pc = "act_call"
    /\ pc' = "failed"
    /\ UNCHANGED <<ui_state, should_quit, config, args, commands, terminal,
                   elapsed, key, call, fetched, restore>>

\* a loop that never looks at should_quit
loop_condition_forever(quit) == TRUE

\* App::run: the condition of `while !self.should_quit`
loop_condition(quit) == ~quit

\* App::run: the loop condition ends the loop
LoopExit ==
    /\ pc = "draw"
    /\ ~loop_condition(should_quit)
    /\ pc' = "done"
    /\ UNCHANGED <<ui_state, should_quit, config, args, commands, terminal,
                   elapsed, key, call, fetched, restore>>

\* App::run: terminal.draw with ui::render, which indexes the selected instance
Draw ==
    /\ pc = "draw"
    /\ loop_condition(should_quit)
    /\ pc' = IF ui_state.instances # <<>> /\ ~index_in_range(ui_state)
             THEN "panic" ELSE "poll"
    /\ UNCHANGED <<ui_state, should_quit, config, args, commands, terminal,
                   elapsed, key, call, fetched, restore>>

\* App::handle_events: the poll times out, or the event is no key event
PollIdle ==
    /\ pc = "poll"
    /\ \E d \in {0, 1} : elapsed' = later(elapsed, d)
    /\ key' = NoKey
    /\ pc' = "check"
    /\ UNCHANGED <<ui_state, should_quit, config, args, commands, terminal,
                   call, fetched, restore>>

\* App::handle_key_event, the quit arms
KeyQuit ==
    /\ pc = "poll"
    /\ \E k \in Keys, d \in {0, 1} :
        /\ dispatch(k) = "quit"
        /\ key' = k
        /\ elapsed' = later(elapsed, d)
    /\ should_quit' = TRUE
    /\ pc' = "check"
    /\ restore' = NoList
    /\ UNCHANGED <<ui_state, config, args, commands, terminal, call, fetched>>

\* App::handle_key_event, the arms that call into UiState
KeyUi ==
    /\ pc = "poll"
    /\ \E k \in Keys, d \in {0, 1} :
        /\ dispatch(k) \in UiArms
        /\ within_bounds(ui_arm(ui_state, k))
        /\ key' = k
        /\ elapsed' = later(elapsed, d)
        /\ ui_state' = ui_arm(ui_state, k)
        /\ restore' = typed_over(ui_state, k)
    /\ pc' = "check"
    /\ UNCHANGED <<should_quit, config, args, commands, terminal, call,
                   fetched>>

\* a refresh arm that calls refresh_data only when a refresh is due
KeyRefresh_when_due ==
    /\ pc = "poll"
    /\ \E k \in Keys, d \in {0, 1} :
        /\ dispatch(k) = "refresh"
        /\ key' = k
        /\ elapsed' = later(elapsed, d)
        /\ IF refresh_due(elapsed', refresh_interval)
           THEN pc' = "list_call" /\ call' = ListCall("manual")
           ELSE pc' = "check" /\ call' = call
    /\ restore' = NoList
    /\ UNCHANGED <<ui_state, should_quit, config, args, commands, terminal,
                   fetched>>

\* App::handle_key_event, the refresh arm
KeyRefresh ==
    /\ pc = "poll"
    /\ \E k \in Keys, d \in {0, 1} :
        /\ dispatch(k) = "refresh"
        /\ key' = k
        /\ elapsed' = later(elapsed, d)
    /\ pc' = "list_call"
    /\ call' = ListCall("manual")
    /\ restore' = NoList
    /\ UNCHANGED <<ui_state, should_quit, config, args, commands, terminal,
                   fetched>>

\* App::handle_key_event, the instance action arms
KeyAction ==
    /\ pc = "poll"
    /\ \E k \in Keys, d \in {0, 1} :
        /\ dispatch(k) \in ActionOps
        /\ key' = k
        /\ elapsed' = later(elapsed, d)
        /\ IF ui_state.instances = <<>> THEN
               /\ pc' = "check"
               /\ call' = call
           ELSE IF ~index_in_range(ui_state) THEN
               /\ pc' = "panic"
               /\ call' = call
           ELSE
               /\ pc' = "act_call"
               /\ call' = ActCall(dispatch(k), selected_instance_id(ui_state).v)
    /\ restore' = NoList
    /\ UNCHANGED <<ui_state, should_quit, config, args, commands, terminal,
                   fetched>>

\* App::run: the refresh-due test that ends a loop iteration
Check ==
    /\ pc = "check"
    /\ key' = NoKey
    /\ IF refresh_due(elapsed, refresh_interval)
       THEN pc' = "list_call" /\ call' = ListCall("periodic")
       ELSE pc' = "draw" /\ call' = call
    /\ UNCHANGED <<ui_state, should_quit, config, args, commands, terminal,
                   elapsed, fetched, restore>>

Next ==
    \/ ClientNewOk
    \/ ClientNewErr
    \/ ListOk
    \/ ListErr
    \/ ActOk
    \/ ActErr
    \/ LoopExit
    \/ Draw
    \/ PollIdle
    \/ KeyQuit
    \/ KeyUi
    \/ KeyRefresh
    \/ KeyAction
    \/ Check

Spec == Init /\ [][Next]_vars

\* the loop's thread keeps running and a provider call in flight returns
LiveSpec ==
    /\ Spec
    /\ WF_vars(Check)
    /\ WF_vars(LoopExit)
    /\ WF_vars(ListOk \/ ListErr)

\* ------------------------------------------- a lifecycle call, step by step
\* an instance with the name of InstA in another zone
InstD == [id |-> <<"4">>, name |-> <<"w", "u">>, status |-> TERMINATED,
          machine_type |-> <<"e", "2">>, zone |-> <<"z", "-", "b">>,
          network |-> None, internal_ip |-> None]

\* the listings get_instance's own list call may be answered with
ProviderListings == Listings \cup { <<InstA, InstD, InstC>> }

\* the instance_id arguments of the model: ids, names and an unknown id
CallIds == {<<"1">>, <<"2">>, <<"4">>, <<"w", "u">>, <<"c">>, <<"9">>}

\* get_instance: the positions of the listing the find closure accepts
find_hits(list, instance_id) ==
    {i \in 1..Len(list) :
        list[i].id = instance_id \/ list[i].name = instance_id}

\* get_instance: Iterator::find, the first element the closure accepts
find(list, instance_id) ==
    LET hits == find_hits(list, instance_id)
    IN IF hits = {} THEN [some |-> FALSE, at |-> 0]
       ELSE [some |-> TRUE,
             at |-> CHOOSE i \in hits : \A j \in hits : i <= j]

\* a gcloud compute instances command on one instance
Command(verb, instance) ==
    [verb |-> verb, name |-> instance.name, zone |-> instance.zone]

\* gcloud compute instances list
ListCommand == [verb |-> "list", name |-> <<>>, zone |-> <<>>]

\* the gcloud verb of start_instance, stop_instance and restart_instance
verb(op) ==
    CASE op = "Start" -> "start"
      [] op = "Stop" -> "stop"
      [] op = "Restart" -> "reset"

\* a restart_instance that stops the instance and then starts it
lifecycle_commands_stop_start(op, instance) ==
    IF op = "Restart"
    THEN <<Command("stop", instance), Command("start", instance)>>
    ELSE <<Command(verb(op), instance)>>

\* what the lifecycle function runs once get_instance has returned
lifecycle_commands(op, instance) == <<Command(verb(op), instance)>>

\* a call of start_instance, stop_instance or restart_instance begins
ProviderInit ==
    /\ ui_state = UiStateNew
    /\ should_quit = FALSE
    /\ config = ConfigDefault
    /\ args = [project |-> None, region |-> None, refresh |-> 5]
    /\ commands = <<>>
    /\ terminal = "set_up"
    /\ elapsed = 0
    /\ pc = "get_instance"
    /\ key = NoKey
    /\ call \in {ActCall(op, id) : op \in ActionOps, id \in CallIds}
    /\ fetched = <<>>
    /\ restore = NoList

\* get_instance: list_instances returns a listing and find looks the id up
GetInstanceList ==
    /\ pc = "get_instance"
    /\ \E l \in ProviderListings :
        /\ fetched' = l
        /\ pc' = IF find(l, call.id).some THEN "describe" ELSE "act_err"
    /\ commands' = Append(commands, ListCommand)
    /\ UNCHANGED <<ui_state, should_quit, config, args, terminal, elapsed,
                   key, call, restore>>

\* get_instance: list_instances fails
GetInstanceListErr ==
    /\ pc = "get_instance"
    /\ commands' = Append(commands, ListCommand)
    /\ pc' = "act_err"
    /\ UNCHANGED <<ui_state, should_quit, config, args, terminal, elapsed,
                   key, call, fetched, restore>>

\* get_instance: the describe command on the instance found, Ok or Err
GetInstanceDescribe ==
    /\ pc = "describe"
    /\ commands' =
          Append(commands,
                 Command("describe", fetched[find(fetched, call.id).at]))
    /\ pc' \in {"command", "act_err"}
    /\ UNCHANGED <<ui_state, should_quit, config, args, terminal, elapsed,
                   key, call, fetched, restore>>

\* start_instance, stop_instance, restart_instance: the command, Ok or Err
LifecycleCommand ==
    /\ pc = "command"
    /\ commands' =
          commands \o
          lifecycle_commands(call.op, fetched[find(fetched, call.id).at])
    /\ pc' \in {"act_ok", "act_err"}
    /\ UNCHANGED <<ui_state, should_quit, config, args, terminal, elapsed,
                   key, call, fetched, restore>>

ProviderNext ==
    \/ GetInstanceList
    \/ GetInstanceListErr
    \/ GetInstanceDescribe
    \/ LifecycleCommand

\* one call of a lifecycle function of cloud/instances.rs
ProviderSpec == ProviderInit /\ [][ProviderNext]_vars

\* ----------------------------------------- main's overrides of the Config
\* the refresh intervals of configuration files and of --refresh
ConfigIntervals == {0, 1, 5}

Option(values) == {None} \cup {Some(v) : v \in values}

\* what Config::load, or Config::default when it fails, gives main
FileConfigs ==
    [project : Option(Projects), region : Option(Regions),
     refresh_interval : ConfigIntervals, theme : Themes, use_ssh : BOOLEAN,
     credentials_path : Option(Paths)]

\* main: Args::parse and Config::load have returned
ConfigInit ==
    /\ ui_state = UiStateNew
    /\ should_quit = FALSE
    /\ config \in FileConfigs
    /\ args \in [project : Option({<<"q">>}), region : Option(Regions),
                 refresh : ConfigIntervals]
    /\ commands = <<>>
    /\ terminal = "untouched"
    /\ elapsed = 0
    /\ pc = "with_project"
    /\ key = NoKey
    /\ call = NoCall
    /\ fetched = <<>>
    /\ restore = NoList

\* main: config.with_project(args.project)
WithProject ==
    /\ pc = "with_project"
    /\ config' = with_project(config, args.project)
    /\ pc' = "with_region"
    /\ UNCHANGED <<ui_state, should_quit, args, commands, terminal, elapsed,
                   key, call, fetched, restore>>

\* main: .with_region(args.region)
WithRegion ==
    /\ pc = "with_region"
    /\ config' = with_region(config, args.region)
    /\ pc' = "with_refresh_interval"
    /\ UNCHANGED <<ui_state, should_quit, args, commands, terminal, elapsed,
                   key, call, fetched, restore>>

\* main: .with_refresh_interval(args.refresh)
WithRefreshInterval ==
    /\ pc = "with_refresh_interval"
    /\ config' = with_refresh_interval(config, args.refresh)
    /\ pc' = "setup_terminal"
    /\ UNCHANGED <<ui_state, should_quit, args, commands, terminal, elapsed,
                   key, call, fetched, restore>>

\* main: ui::setup_terminal()? has returned the terminal
SetupTerminalOk ==
    /\ pc = "setup_terminal"
    /\ terminal' = "set_up"
    /\ pc' = "app_new"
    /\ UNCHANGED <<ui_state, should_quit, config, args, commands, elapsed, key,
                   call, fetched, restore>>

\* main: ui::setup_terminal()? has failed and `?` returns the error
SetupTerminalErr ==
    /\ pc = "setup_terminal"
    /\ terminal' = "setup_failed"
    /\ pc' = "returned"
    /\ UNCHANGED <<ui_state, should_quit, config, args, commands, elapsed, key,
                   call, fetched, restore>>

\* main: App::new(config).await? has returned the application
AppNewOk ==
    /\ pc = "app_new"
    /\ pc' = "run"
    /\ UNCHANGED <<ui_state, should_quit, config, args, commands, terminal,
                   elapsed, key, call, fetched, restore>>

\* main: App::new(config).await? has failed and `?` returns the error
AppNewErr ==
    /\ pc = "app_new"
    /\ pc' = "returned"
    /\ UNCHANGED <<ui_state, should_quit, config, args, commands, terminal,
                   elapsed, key, call, fetched, restore>>

\* main: .run(&mut terminal).await has returned, Ok or Err, into `result`
Run ==
    /\ pc = "run"
    /\ pc' = "restore_terminal"
    /\ UNCHANGED <<ui_state, should_quit, config, args, commands, terminal,
                   elapsed, key, call, fetched, restore>>

\* main: ui::restore_terminal()? has run, and main returns: the error of
\* restore_terminal, else the error held by `result`, else Ok
RestoreTerminal ==
    /\ pc = "restore_terminal"
    /\ terminal' = "restored"
    /\ pc' = "returned"
    /\ UNCHANGED <<ui_state, should_quit, config, args, commands, elapsed, key,
                   call, fetched, restore>>

ConfigNext ==
    \/ WithProject
    \/ WithRegion
    \/ WithRefreshInterval
    \/ SetupTerminalOk
    \/ SetupTerminalErr
    \/ AppNewOk
    \/ AppNewErr
    \/ Run
    \/ RestoreTerminal

\* main, from the loaded Config to its return
ConfigSpec == ConfigInit /\ [][ConfigNext]_vars

\* ---------------------------------------------------------------- claims

\* C1: whenever `instances` is non-empty the cursor satisfies
\* 0 <= selected_index < len(instances), and no indexing of
\* instances[selected_index] (render, selected_instance_id) ever panics.
C1_SelectionInvariant ==
    /\ pc # "panic"
    /\ ui_state.instances # <<>> =>
          /\ 0 <= ui_state.selected_index
          /\ ui_state.selected_index < Len(ui_state.instances)

\* C1 witness: a "next" key has just wrapped the cursor of a list of two or
\* more instances from the last element to the first.
C1_Witness ==
    /\ pc = "check"
    /\ dispatch(key) = "next_item"
    /\ Len(ui_state.instances) >= 2
    /\ ui_state.selected_index = 0

\* C2: a list call that fails while `instances` holds N >= 1 items leaves
\* `instances` (same items, same order) and selected_index as they were.
C2_FailedRefreshKeepsState ==
    [][(/\ pc = "list_call"
        /\ pc' \in {"failed", "startup_failed"}
        /\ Len(ui_state.instances) >= 1)
       => /\ ui_state'.instances = ui_state.instances
          /\ ui_state'.selected_index = ui_state.selected_index]_vars

\* C2 witness: a refresh has failed while the list held at least one instance.
C2_Witness ==
    /\ pc = "failed"
    /\ call.op = "list"
    /\ Len(ui_state.instances) >= 1

\* C3: a refresh that fails once the loop runs is not fatal: the loop never
\* ends because a list call failed.
C3_RefreshFailureNotFatal ==
    ~(pc = "failed" /\ call.op = "list")

\* C4: a lifecycle action that fails is not fatal: the loop never ends
\* because a start, stop or restart call failed.
C4_ActionFailureNotFatal ==
    ~(pc = "failed" /\ call.op \in ActionOps)

\* C5: when the provider call of a lifecycle action completes, the refresh's
\* list call is what follows, before any further key event is handled.
C5_ActionThenRefresh ==
    [][pc = "act_call" => (pc' = "list_call" /\ call'.op = "list")]_vars

\* the popup and input modes that are active
ActiveModes(ui) ==
    {m \in {"show_help", "show_details", "filter_mode", "search_mode"} : ui[m]}

\* C6: at most one of show_help, show_details, filter_mode, search_mode is
\* set in any reachable state.
C6_ModeExclusive ==
    Cardinality(ActiveModes(ui_state)) <= 1

\* C7: every element of `instances` matches the filter predicate for the
\* current filter text, in every reachable state.
C7_FilterInvariant ==
    \A i \in 1..Len(ui_state.instances) :
        matches(ui_state.instances[i], to_lowercase(ui_state.filter))

\* C8: once a filter text typed over an unfiltered list L has been deleted
\* again with backspace, the provider's listing being L throughout,
\* `instances` is L.
C8_FilterRestoration ==
    (restore.some /\ ui_state.filter_mode /\ ui_state.filter = <<>>)
        => ui_state.instances = restore.list

\* C9: the search-toggle key pressed in FilterInput with a non-empty filter
\* text leaves the filter text empty, `instances` the unfiltered list fetched
\* last, FilterInput inactive and SearchInput active.
C9_SearchFromFilter ==
    [][(/\ pc = "poll"
        /\ key' = Char("/")
        /\ ui_state.filter_mode
        /\ ui_state.filter # <<>>)
       => /\ ui_state'.filter = <<>>
          /\ ui_state'.instances = fetched'
          /\ ~ui_state'.filter_mode
          /\ ui_state'.search_mode]_vars

\* C10: leaving FilterInput by the filter-toggle key or Escape clears the
\* filter text and makes `instances` the unfiltered list fetched last; leaving
\* SearchInput by the search-toggle key or Escape clears the search text.
C10_LeavingInputMode ==
    [][/\ (/\ pc = "poll"
           /\ key' \in {Char("f"), Code("Esc")}
           /\ ui_state.filter_mode)
          => /\ ui_state'.filter = <<>>
             /\ ui_state'.instances = fetched'
       /\ (/\ pc = "poll"
           /\ key' \in {Char("/"), Code("Esc")}
           /\ ui_state.search_mode)
          => ui_state'.search = <<>>]_vars

\* C11: Escape handled while a popup or input mode is active leaves no mode
\* flag set and both the filter text and the search text empty.
C11_EscapeClears ==
    [][(/\ pc = "poll"
        /\ key' = Code("Esc")
        /\ ActiveModes(ui_state) # {})
       => /\ ActiveModes(ui_state') = {}
          /\ ui_state'.filter = <<>>
          /\ ui_state'.search = <<>>]_vars

\* C12: the filter text is non-empty only while filter_mode is set, and the
\* search text is non-empty only while search_mode is set.
C12_BufferOwnership ==
    /\ ui_state.filter # <<>> => ui_state.filter_mode
    /\ ui_state.search # <<>> => ui_state.search_mode

\* the characters C13 names: plain text and the command characters that an
\* input mode is to capture
CapturedChars == TextChars \cup {"q", "r", "s", "S", "R", "j", "k", "?"}

\* C13: in FilterInput (resp. SearchInput) a character key appends the
\* character to the filter (resp. search) text and does nothing else: no
\* quit, no navigation, no popup, no refresh, no lifecycle action.
C13_InputCapture ==
    [][(/\ pc = "poll"
        /\ key'.code = "Char"
        /\ ~key'.ctrl
        /\ key'.c \in CapturedChars
        /\ is_input_mode(ui_state))
       => /\ ui_state' =
                IF ui_state.filter_mode
                THEN [ui_state EXCEPT !.filter = Append(@, key'.c)]
                ELSE [ui_state EXCEPT !.search = Append(@, key'.c)]
          /\ should_quit' = should_quit
          /\ pc' = "check"
          /\ call' = call]_vars

\* C14: with only the help popup open, a key other than its close keys
\* (Escape, the help toggle) and quit changes nothing and calls no provider;
\* with only the details popup open, the same holds for a key other than
\* Escape, quit and the lifecycle-action keys.
C14_PopupsIgnoreKeys ==
    [][/\ (/\ pc = "poll"
           /\ key' # NoKey
           /\ ActiveModes(ui_state) = {"show_help"}
           /\ dispatch(key') \notin {"close_popup", "toggle_help", "quit"})
          => (ui_state' = ui_state /\ pc' = "check" /\ call' = call)
       /\ (/\ pc = "poll"
           /\ key' # NoKey
           /\ ActiveModes(ui_state) = {"show_details"}
           /\ dispatch(key') \notin {"close_popup", "quit"} \cup ActionOps)
          => (ui_state' = ui_state /\ pc' = "check" /\ call' = call)]_vars

\* C15: start, stop or restart pressed while the details popup is open issues
\* that action for the id of instances[selected_index], as in Normal mode (and
\* issues nothing when the list is empty).
C15_DetailsForwardsActions ==
    [][(/\ pc = "poll"
        /\ key' # NoKey
        /\ dispatch(key') \in ActionOps
        /\ ui_state.show_details)
       => /\ ui_state' = ui_state
          /\ IF ui_state.instances = <<>>
             THEN pc' = "check" /\ call' = call
             ELSE /\ pc' = "act_call"
                  /\ call'.op = dispatch(key')
                  /\ call'.id =
                        ui_state.instances[ui_state.selected_index + 1].id]_vars

\* C15 witness: an action is in flight that was issued with the details popup
\* open on an instance other than the first.
C15_Witness ==
    /\ pc = "act_call"
    /\ call.op \in ActionOps
    /\ ui_state.show_details
    /\ ui_state.selected_index > 0

\* C16: a lifecycle-action key issues its action only when `instances` is
\* non-empty, and then for the id of instances[selected_index] as it is when
\* the key is handled; when `instances` is empty the key changes nothing,
\* issues no provider call and starts no refresh of its own.
C16_ActionTargeting ==
    [][(/\ pc = "poll"
        /\ key' # NoKey
        /\ dispatch(key') \in ActionOps)
       => IF ui_state.instances = <<>>
          THEN /\ pc' = "check"
               /\ call' = call
               /\ ui_state' = ui_state
               /\ fetched' = fetched
          ELSE /\ pc' = "act_call"
               /\ call'.op = dispatch(key')
               /\ call'.ctx = "key"
               /\ \E i \in 1..Len(ui_state.instances) :
                     /\ i = ui_state.selected_index + 1
                     /\ call'.id = ui_state.instances[i].id]_vars

\* C16 witness: a stop is in flight for the second of three instances, issued
\* in Normal mode.
C16_Witness ==
    /\ pc = "act_call"
    /\ call.op = "Stop"
    /\ ActiveModes(ui_state) = {}
    /\ Len(ui_state.instances) = 3
    /\ ui_state.selected_index = 1
    /\ call.id = InstB.id

\* C17: on a list of n >= 1 instances with the cursor at i, "next" yields
\* (i + 1) mod n and "previous" yields (i - 1) mod n, both leave the list
\* alone (no-ops when n = 1), and "next" then "previous" returns to i.
C17_Wraparound ==
    [][LET n == Len(ui_state.instances)
           i == ui_state.selected_index
       IN (pc = "poll" /\ key' # NoKey /\ n >= 1)
          => /\ dispatch(key') = "next_item" =>
                   ui_state' = [ui_state EXCEPT !.selected_index = (i + 1) % n]
             /\ dispatch(key') = "previous_item" =>
                   ui_state' = [ui_state EXCEPT
                                   !.selected_index = (i + n - 1) % n]
             /\ previous_item(next_item(ui_state)) = ui_state]_vars

\* C17 witness: a "previous" key has just wrapped the cursor of a list of
\* three instances from the first element to the last.
C17_Witness ==
    /\ pc = "check"
    /\ dispatch(key) = "previous_item"
    /\ Len(ui_state.instances) = 3
    /\ ui_state.selected_index = 2

\* the elements of a listing that match a filter text, in listing order
Matching(list, text) ==
    LET Test(x) == matches(x, to_lowercase(text))
    IN SelectSeq(list, Test)

\* the smaller of two numbers
Min(a, b) == IF a < b THEN a ELSE b

\* C18: a successful refresh leaves `instances` equal to the returned listing
\* restricted to the elements matching the current filter text, in provider
\* order, and the cursor clamped into range, 0 when that list is empty.
C18_RefreshReconciles ==
    [][(pc = "list_call" /\ pc' \notin {"failed", "startup_failed"})
       => LET expected == Matching(fetched', ui_state.filter)
          IN /\ ui_state'.instances = expected
             /\ ui_state'.selected_index =
                   IF expected = <<>> THEN 0
                   ELSE Min(ui_state.selected_index, Len(expected) - 1)
             /\ ui_state'.filter = ui_state.filter]_vars

\* C18 witness: a refresh has just returned three instances of which the
\* active filter keeps two.
C18_Witness ==
    /\ pc \in {"draw", "check"}
    /\ call = NoCall
    /\ elapsed = 0
    /\ Len(fetched) = 3
    /\ ui_state.filter # <<>>
    /\ Len(ui_state.instances) = 2
    /\ ui_state.instances = Matching(fetched, ui_state.filter)

C20_QuitOnlyTermination ==
    pc \in {"done", "failed", "panic"} => should_quit

\* C21: once the quit key has been handled no key event is handled any more
\* (the loop never polls and never starts a lifecycle action again), and, the
\* provider call of a refresh that is due returning, the loop stops.
C21_QuitTerminates ==
    /\ [](should_quit => pc \notin {"poll", "act_call", "panic"})
    /\ [][should_quit => key' \in {key, NoKey}]_vars
    /\ (should_quit ~> pc \in {"done", "failed"})

\* C21 witness: the loop has stopped after the quit key was handled in Normal
\* mode and the refresh that was due in that iteration returned.
C21_Witness ==
    /\ pc = "done"
    /\ should_quit
    /\ ActiveModes(ui_state) = {}
    /\ elapsed = 0
    /\ refresh_interval = 1
    /\ fetched # <<>>

\* the program is in App::new: resolving the project or in the first refresh
InStartup == pc = "client_new" \/ (pc = "list_call" /\ call.ctx = "new")

\* C22: a failure to resolve the project or of the initial refresh stops the
\* program before the loop: until the first refresh has succeeded nothing is
\* rendered and no key is handled, a startup failure is final, and the loop
\* is entered only by the first refresh succeeding, with `instances` holding
\* the listing it returned.
C22_StartupFatal ==
    /\ []((InStartup \/ pc = "startup_failed")
            => /\ ui_state = UiStateNew
               /\ key = NoKey
               /\ ~should_quit)
    /\ [][/\ pc = "client_new" => pc' \in {"list_call", "startup_failed"}
          /\ pc = "startup_failed" => pc' = "startup_failed"
          /\ InStartup' => pc = "client_new"
          /\ (InStartup /\ pc' \notin {"list_call", "startup_failed"})
                => /\ pc = "list_call"
                   /\ pc' = "draw"
                   /\ call' = NoCall
                   /\ ui_state' = [UiStateNew EXCEPT !.instances = fetched']
                   /\ \E l \in Listings : fetched' = l]_vars

\* C22 witness: the initial refresh has failed and the program has stopped
\* without entering the loop.
C22_Witness ==
    /\ pc = "startup_failed"
    /\ call = ListCall("new")

\* a provider call is in flight: the program waits in it
InFlight == pc \in {"list_call", "act_call"}

\* C23: the program renders, polls and tests for a due refresh only with no
\* provider call in flight; while one is in flight no key is handled and the
\* dashboard state stays as it is until a list call returns; and a call is
\* started only when none is in flight or the one in flight has returned.
C23_SingleSuspension ==
    /\ [](pc \in {"client_new", "draw", "poll", "check", "done"}
            => call = NoCall)
    /\ [](InFlight => /\ call # NoCall
                      /\ (pc = "list_call") = (call.op = "list")
                      /\ (pc = "act_call") = (call.op \in ActionOps))
    /\ [][/\ InFlight => /\ key' = key
                         /\ should_quit' = should_quit
                         /\ ui_state' # ui_state
                               => (pc = "list_call" /\ call' = NoCall)
          /\ (call' # call /\ call' # NoCall)
                => \/ call = NoCall
                   \/ pc = "act_call" /\ call' = ListCall("action")]_vars

\* C23 witness: the refresh that follows a lifecycle action is in flight, the
\* action call having returned.
C23_Witness ==
    /\ pc = "list_call"
    /\ call = ListCall("action")
    /\ dispatch(key) \in ActionOps

\* the predicate of the claim: the lower-cased text occurs in the lower-cased
\* name, status, machine_type, zone, or internal_ip when there is one
FiveFieldMatch(instance, text) ==
    LET q == to_lowercase(text)
    IN \/ contains(to_lowercase(instance.name), q)
       \/ contains(to_lowercase(instance.status), q)
       \/ contains(to_lowercase(instance.machine_type), q)
       \/ contains(to_lowercase(instance.zone), q)
       \/ /\ instance.internal_ip.some
          /\ contains(to_lowercase(instance.internal_ip.v), q)

\* C24: the list a successful refresh leaves holds exactly the returned
\* instances whose name, status, machine_type, zone or internal_ip contains
\* the filter text, case-insensitively: no other field makes an instance
\* match, and the empty text matches every instance.
C24_FilterPredicate ==
    [][(pc = "list_call" /\ pc' \notin {"failed", "startup_failed"})
       => LET Test(x) == FiveFieldMatch(x, ui_state.filter)
          IN ui_state'.instances = SelectSeq(fetched', Test)]_vars

\* C25: the show-details key pressed in Normal mode opens the details popup,
\* changing nothing else, when `instances` is non-empty, and leaves the state
\* as it is, issuing no call, when `instances` is empty.
C25_ShowDetails ==
    [][(/\ pc = "poll"
        /\ key' = Code("Enter")
        /\ ActiveModes(ui_state) = {})
       => /\ ui_state' = IF ui_state.instances = <<>> THEN ui_state
                         ELSE [ui_state EXCEPT !.show_details = TRUE]
          /\ ActiveModes(ui_state') =
                IF ui_state.instances = <<>> THEN {} ELSE {"show_details"}
          /\ pc' = "check"
          /\ call' = call
          /\ should_quit' = should_quit]_vars

\* C25 witness: Enter has just opened the details popup from Normal mode on
\* the second of three instances.
C25_Witness ==
    /\ pc = "check"
    /\ key = Code("Enter")
    /\ ActiveModes(ui_state) = {"show_details"}
    /\ Len(ui_state.instances) = 3
    /\ ui_state.selected_index = 1

\* the handler of the key read in this iteration is running a provider call
InKeyHandler ==
    \/ pc = "act_call"
    \/ pc = "list_call" /\ call.ctx \in {"manual", "action"}

\* C26: handling a key never ends in an error, whatever the mode and the key,
\* and a key with no binding pressed in Normal mode changes no field of the
\* dashboard state and issues no provider call.
C26_KeyHandlingTotal ==
    [][/\ pc = "poll" => pc' \notin {"failed", "panic"}
       /\ InKeyHandler => pc' \notin {"failed", "panic"}
       /\ (/\ pc = "poll"
           /\ key' # NoKey
           /\ dispatch(key') = "input"
           /\ ActiveModes(ui_state) = {})
          => /\ ui_state' = ui_state
             /\ should_quit' = should_quit
             /\ call' = call
             /\ pc' = "check"]_vars

\* C27: handling Escape changes neither `selected_index` nor `instances`, and
\* from Normal mode with an empty filter it changes nothing at all and issues
\* no call.
C27_EscapeFrame ==
    [][(pc = "poll" /\ key' = Code("Esc"))
       => /\ ui_state'.selected_index = ui_state.selected_index
          /\ ui_state'.instances = ui_state.instances
          /\ (ActiveModes(ui_state) = {} /\ ui_state.filter = <<>>)
                => /\ ui_state' = ui_state
                   /\ should_quit' = should_quit
                   /\ call' = call
                   /\ pc' = "check"]_vars

\* C27 witness: Escape has just been handled in filter mode over a filtered
\* list of two instances with the cursor on the second.
C27_Witness ==
    /\ pc = "check"
    /\ key = Code("Esc")
    /\ ui_state.filter # <<>>
    /\ ~ui_state.filter_mode
    /\ Len(ui_state.instances) = 2
    /\ Len(fetched) = 3
    /\ ui_state.selected_index = 1

\* the positions of the commands run so far that have one of the verbs
Issued(verbs) == {i \in 1..Len(commands) : commands[i].verb \in verbs}

C29_IdentifierResolution ==
    (\/ pc \in {"describe", "command", "act_ok"}
     \/ Issued({"start", "stop", "reset", "describe"}) # {})
       => Cardinality(find_hits(fetched, call.id)) = 1

\* the fields of Config other than refresh_interval
OtherFields == {"project", "region", "theme", "use_ssh", "credentials_path"}

C37_TerminalRestored ==
    (pc = "returned" /\ terminal # "setup_failed") => terminal = "restored"

\* C38 (as stated): the Config main hands to App::new, whatever the file
\* and the command line gave, has a refresh_interval above zero.
C38_PositiveInterval ==
    pc \in {"app_new", "run", "restore_terminal"} =>
        config.refresh_interval > 0

\* C31: a list call that succeeds leaves selected_index as it was whenever
\* that index is still smaller than the length of the new displayed list; in
\* particular a listing equal to the one displayed leaves the cursor alone.
C31_SelectionSurvivesRefresh ==
    [][(/\ pc = "list_call"
        /\ pc' \in {"draw", "check"}
        /\ ui_state.selected_index < Len(ui_state'.instances))
       => ui_state'.selected_index = ui_state.selected_index]_vars

\* C31 witness: an action key on the second of three instances has been
\* followed by a successful refresh that again lists three instances, and
\* the cursor is still on the second.
C31_Witness ==
    /\ pc = "check"
    /\ dispatch(key) \in ActionOps
    /\ call = NoCall
    /\ Len(ui_state.instances) = 3
    /\ ui_state.selected_index = 1

\* the status strings render_instance_list has an arm for
KnownStatuses ==
    {RUNNING, TERMINATED, STOPPING, PROVISIONING, STAGING, SUSPENDED,
     REPAIRING, PENDING}

\* C32: an instance whose status is none of the eight known strings is
\* displayed as UNKNOWN, and a successful list call whose listing holds such
\* an instance keeps it in `instances` (when the filter is empty or accepts
\* it); the listing is accepted like any other.
C32_UnknownStatusTolerated ==
    [][(pc = "list_call" /\ pc' \in {"draw", "check"}) =>
        \A n \in 1..Len(fetched') :
            fetched'[n].status \notin KnownStatuses =>
                /\ status_display(fetched'[n].status) = UNKNOWN
                /\ (\/ ui_state.filter = <<>>
                    \/ matches(fetched'[n], to_lowercase(ui_state.filter)))
                   => \E m \in 1..Len(ui_state'.instances) :
                          ui_state'.instances[m] = fetched'[n]]_vars

\* C32 witness: a refresh has succeeded on a listing holding an instance in
\* status SUSPENDING, and that instance is displayed.
C32_Witness ==
    /\ pc \in {"draw", "check"}
    /\ call = NoCall
    /\ fetched = <<InstA, InstB, InstC>>
    /\ ui_state.instances = fetched
    /\ InstC.status \notin KnownStatuses

\* C33: filter_mode and search_mode are never both set; a character or
\* backspace key never changes both buffers, and one that reaches
\* handle_input changes the buffer of the active input mode only (a
\* character always changes it, a backspace unless it is empty).
C33_InputModesExclusive ==
    /\ [](~(ui_state.filter_mode /\ ui_state.search_mode))
    /\ [][(pc = "poll" /\ key'.code \in {"Char", "Backspace"}) =>
            /\ ~(ui_state'.filter # ui_state.filter
                 /\ ui_state'.search # ui_state.search)
            /\ (dispatch(key') = "input" /\ ui_state.filter_mode) =>
                   /\ ui_state'.search = ui_state.search
                   /\ key'.code = "Char" => ui_state'.filter # ui_state.filter
            /\ (dispatch(key') = "input" /\ ui_state.search_mode) =>
                   /\ ui_state'.filter = ui_state.filter
                   /\ key'.code = "Char" => ui_state'.search # ui_state.search
           ]_vars

\* C33 witness: with text in the filter buffer, search mode has been entered
\* from filter mode and a character typed: it went to the search buffer and
\* filter mode is off.
C33_Witness ==
    /\ pc = "check"
    /\ dispatch(key) = "input"
    /\ key.code = "Char"
    /\ ui_state.search_mode
    /\ ~ui_state.filter_mode
    /\ ui_state.filter # <<>>
    /\ ui_state.search # <<>>

\* C34 (as stated): whenever the details popup flag is set, `instances` is
\* non-empty.
C34_DetailsNeedInstance ==
    ui_state.show_details => ui_state.instances # <<>>

NonSearchFields ==
    {"instances", "selected_index", "show_help", "show_details",
     "filter_mode", "filter", "search_mode"}

\* C39 (as stated): a character or backspace key handled while search mode
\* is on changes the search buffer at most (append, or pop unless it is
\* empty): instances, selected_index, the filter buffer and every flag stay
\* as they are, the program does not quit and no provider call is started.
C39_SearchInputInert ==
    [][(/\ pc = "poll"
        /\ key'.code \in {"Char", "Backspace"}
        /\ ~key'.ctrl
        /\ ui_state.search_mode)
       => /\ \A f \in NonSearchFields : ui_state'[f] = ui_state[f]
          /\ ui_state'.search =
                IF key'.code = "Char" THEN Append(ui_state.search, key'.c)
                ELSE pop(ui_state.search)
          /\ should_quit' = should_quit
          /\ pc' = "check"
          /\ call' = call]_vars

\* the mode flags and the two buffers of a UiState
ModesAndBuffers(ui) ==
    <<ui.show_help, ui.show_details, ui.filter_mode, ui.search_mode,
      ui.filter, ui.search>>

\* C40: the refresh key handled in Normal mode starts a list call at once,
\* however little of the refresh interval has elapsed, and neither the key
\* nor the list call it starts, succeeding or failing, changes a mode flag or
\* a buffer.
C40_ManualRefresh ==
    [][/\ (/\ pc = "poll"
           /\ dispatch(key') = "refresh"
           /\ ActiveModes(ui_state) = {})
          => /\ pc' = "list_call"
             /\ call' = ListCall("manual")
             /\ ui_state' = ui_state
       /\ (pc = "list_call" /\ call.ctx = "manual")
          => ModesAndBuffers(ui_state') = ModesAndBuffers(ui_state)]_vars

\* C40 witness: in Normal mode, with refresh_interval = 1 and no time gone
\* since the last refresh, the refresh key has started a list call.
C40_Witness ==
    /\ pc = "list_call"
    /\ call = ListCall("manual")
    /\ dispatch(key) = "refresh"
    /\ ActiveModes(ui_state) = {}
    /\ refresh_interval = 1
    /\ elapsed = 0
    /\ ui_state.instances # <<>>

====
